---- MODULE Spec2Model ----
(***************************************************************************)
(* Recruitment platform backend: registration, login, JWT access guard     *)
(* and profile read/update, as a state machine over the user collection.   *)
(*                                                                         *)
(* Strings are sequences of one-character strings, so that trim, length,   *)
(* split and startsWith are computed and not assumed.  JSON values of a    *)
(* request body are tagged records (Num, Str, Arr); an absent key is the   *)
(* empty set, a present key a singleton.                                   *)
(***************************************************************************)
EXTENDS Integers, Sequences, FiniteSets, TLC

VARIABLES users, nextId, now, issued, req,
          state, localStorage, axiosAuth, location, mounted, loads, posts, saves,
          dirty, clicks

(* the server: the collection, the clock, the tokens issued, the requests  *)
server == <<users, nextId, now, issued, req>>

(* the browser: auth state of the provider, localStorage token, axios      *)
(* default Authorization, location, whether PrivateRoute is mounted,       *)
(* requests in flight, a render pending, the gestures made so far          *)
client == <<state, localStorage, axiosAuth, location, mounted, loads, posts, saves,
            dirty, clicks>>

vars == <<users, nextId, now, issued, req,
          state, localStorage, axiosAuth, location, mounted, loads, posts, saves,
          dirty, clicks>>

(* ------------------------------ bounds -------------------------------- *)
MaxUsers == 2
MaxTime == 3
MaxReqs == 2
TTL == 2
MaxClicks == 3

Reqs == 1..MaxReqs

(* ------------------------- program constants -------------------------- *)
NameMax == 50
PasswordMin == 6
TldMin == 2
TldMax == 3

(* ------------------------------ strings ------------------------------- *)
Rep(c, n) == [i \in 1..n |-> c]

RECURSIVE TrimLeft(_)
TrimLeft(s) == IF s # <<>> /\ Head(s) = " " THEN TrimLeft(Tail(s)) ELSE s

RECURSIVE TrimRight(_)
TrimRight(s) ==
    IF s # <<>> /\ s[Len(s)] = " " THEN TrimRight(SubSeq(s, 1, Len(s) - 1)) ELSE s

Trim(s) == TrimRight(TrimLeft(s))

LowerChar(c) == IF c = "A" THEN "a" ELSE IF c = "B" THEN "b" ELSE c

Lower(s) == [i \in 1..Len(s) |-> LowerChar(s[i])]

Digits == {"0", "1", "2", "3", "4", "5", "6", "7", "8", "9"}

DigitVal(c) == CHOOSE n \in 0..9 : <<"0", "1", "2", "3", "4", "5", "6", "7", "8", "9">>[n + 1] = c

DigitChar(n) == <<"0", "1", "2", "3", "4", "5", "6", "7", "8", "9">>[n + 1]

(* validator.js isNumeric: ^[+-]?[0-9]+$ on the string form (no decimals   *)
(* are drawn in this model)                                                *)
IsNumericStr(s) ==
    LET body == IF s # <<>> /\ Head(s) \in {"-", "+"} THEN Tail(s) ELSE s
    IN body # <<>> /\ \A i \in 1..Len(body) : body[i] \in Digits

RECURSIVE DigitsToNat(_)
DigitsToNat(s) ==
    IF s = <<>> THEN 0 ELSE 10 * DigitsToNat(SubSeq(s, 1, Len(s) - 1)) + DigitVal(s[Len(s)])

StrToNum(s) ==
    IF Head(s) = "-" THEN 0 - DigitsToNat(Tail(s))
    ELSE IF Head(s) = "+" THEN DigitsToNat(Tail(s))
    ELSE DigitsToNat(s)

RECURSIVE NatToStr(_)
NatToStr(n) == IF n < 10 THEN <<DigitChar(n)>> ELSE NatToStr(n \div 10) \o <<DigitChar(n % 10)>>

NumToStr(n) == IF n < 0 THEN <<"-">> \o NatToStr(0 - n) ELSE NatToStr(n)

(* ----------------------------- JSON values ---------------------------- *)
Num(n) == [t |-> "num", n |-> n, s |-> <<>>, a |-> <<>>]
Str(s) == [t |-> "str", n |-> 0, s |-> s, a |-> <<>>]
Arr(a) == [t |-> "arr", n |-> 0, s |-> <<>>, a |-> a]

(* JavaScript truthiness of a JSON value: "" and 0 are falsy, every array  *)
(* (also the empty one) is truthy                                          *)
Truthy(v) ==
    CASE v.t = "num" -> v.n # 0
      [] v.t = "str" -> v.s # <<>>
      [] OTHER -> TRUE

(* String(v), the string form express-validator works on                   *)
JsString(v) ==
    CASE v.t = "num" -> NumToStr(v.n)
      [] v.t = "str" -> v.s
      [] OTHER -> IF v.a = <<>> THEN <<>> ELSE v.a[1]

(* ------------------------------- emails ------------------------------- *)
(* local@x.tld; at = FALSE is a string without "@"                         *)
Email(local, at, tld) == [local |-> local, at |-> at, tld |-> tld]

(* mutant: the email chain without isEmail                                 *)
IsEmailLoose(e) == TRUE

IsEmail(e) == e.at /\ e.local # <<>> /\ Len(e.tld) >= TldMin

NormalizeEmail(e) ==
    IF e.at THEN [e EXCEPT !.local = Lower(e.local)]
    ELSE [e EXCEPT !.local = <<>>, !.at = TRUE]

(* ---------------------------- passwords ------------------------------- *)
Hash(p) == [bcrypt |-> p]

(* mutant: the comparison not awaited, its promise always truthy          *)
CompareNotAwaited(entered, stored) == TRUE

Compare(entered, stored) == stored = Hash(entered)

(* ----------------------------- User schema ---------------------------- *)
(* email match: /^\w+([.-]?\w+)*@\w+([.-]?\w+)*(\.\w{2,3})+$/              *)
SchemaEmailMatch(e) ==
    e.at /\ e.local # <<>> /\ Len(e.tld) >= TldMin /\ Len(e.tld) <= TldMax

NewUser(id, name, email, password, time) ==
    [_id |-> id, name |-> Trim(name), email |-> email, password |-> password,
     role |-> "user", skills |-> <<>>, experience |-> 0, education |-> <<>>,
     createdAt |-> time, updatedAt |-> time]

(* paths that fail schema validation when a document is created           *)
SchemaErrors(doc) ==
    {f \in {"name"} : doc.name = <<>> \/ Len(doc.name) > NameMax}
    \cup {f \in {"email"} : ~SchemaEmailMatch(doc.email)}
    \cup {f \in {"password"} : Len(doc.password) < PasswordMin}

(* pre('save'): the password is replaced by its bcrypt hash, updatedAt is  *)
(* set to the time of the save                                             *)
PreSave(doc, time) == [doc EXCEPT !.password = Hash(doc.password), !.updatedAt = time]

(* mutant: the password path without select: false                         *)
SelectAll(u) == u

(* password has select: false, queries return the document without it     *)
Select(u) ==
    [_id |-> u._id, name |-> u.name, email |-> u.email, role |-> u.role,
     skills |-> u.skills, experience |-> u.experience, education |-> u.education,
     createdAt |-> u.createdAt, updatedAt |-> u.updatedAt]

(* mutant: the collection without the unique index                         *)
UniqueEmailOkNoIndex(coll, email) == TRUE

(* unique index on email: an insert is refused when the email is taken     *)
UniqueEmailOk(coll, email) == \A u \in coll : u.email # email

FindByEmail(coll, email) == {u \in coll : u.email = email}

(* mutant: a filter that matches every document, the first one returned   *)
FindByIdFirst(coll, id) == {u \in coll : \A v \in coll : u._id <= v._id}

FindById(coll, id) == {u \in coll : u._id = id}

(* ------------------------------- tokens ------------------------------- *)
getSignedJwtToken(id, time) == [id |-> id, iat |-> time, exp |-> time + TTL, sig |-> "good"]

Tamper(t) == [t EXCEPT !.sig = "bad"]

(* ------------------------ Authorization header ------------------------ *)
(* a header is a sequence of chunks: literal text or a whole token        *)
Lit(c) == [lit |-> c, tok |-> {}]
Tok(t) == [lit |-> "", tok |-> {t}]

StartsWith(h, word) == h # <<>> /\ h[1].lit = word

RECURSIVE Split(_)
Split(h) ==
    IF \A i \in 1..Len(h) : h[i].lit # " " THEN <<h>>
    ELSE LET i == CHOOSE k \in 1..Len(h) : h[k].lit = " " /\ \A j \in 1..(k - 1) : h[j].lit # " "
         IN <<SubSeq(h, 1, i - 1)>> \o Split(SubSeq(h, i + 1, Len(h)))

(* the token protect takes from the header: empty set when none           *)
ExtractToken(h) ==
    IF StartsWith(h, "Bearer") /\ Len(Split(h)) >= 2 /\ Split(h)[2] # <<>>
    THEN {Split(h)[2]} ELSE {}

(* mutant: the payload decoded without checking the signature             *)
JwtDecodeOnly(tokenStr, time) ==
    IF Len(tokenStr) = 1
    THEN {t \in tokenStr[1].tok : time < t.exp}
    ELSE {}

(* jwt.verify: the decoded payloads (none when it throws)                  *)
JwtVerify(tokenStr, time) ==
    IF Len(tokenStr) = 1
    THEN {t \in tokenStr[1].tok : t.sig = "good" /\ time < t.exp}
    ELSE {}

(* ----------------------------- validators ----------------------------- *)
(* express-validator chains only record the failing params on the request *)
(* and rewrite the body with their sanitizers; a handler sees the errors   *)
(* only if it asks for them.                                               *)
(* mutant: the minimum password length off by one                          *)
registerValidatorOffByOne(body) ==
    {f \in {"name"} : body.name = <<>> \/ Len(Trim(body.name)) > NameMax}
    \cup {f \in {"email"} : ~IsEmail(body.email)}
    \cup {f \in {"password"} : Len(body.password) <= PasswordMin}

registerValidator(body) ==
    {f \in {"name"} : body.name = <<>> \/ Len(Trim(body.name)) > NameMax}
    \cup {f \in {"email"} : ~IsEmail(body.email)}
    \cup {f \in {"password"} : Len(body.password) < PasswordMin}

registerSanitize(body) ==
    [body EXCEPT !.name = Trim(body.name), !.email = NormalizeEmail(body.email)]

loginValidator(body) == {f \in {"email"} : ~IsEmail(body.email)}

loginSanitize(body) == [body EXCEPT !.email = NormalizeEmail(body.email)]

profileUpdateValidator(body) ==
    {f \in {"name"} : \E v \in body.name : Len(Trim(JsString(v))) > NameMax}
    \cup {f \in {"skills"} : \E v \in body.skills : v.t # "arr"}
    \cup {f \in {"experience"} : \E v \in body.experience : ~IsNumericStr(JsString(v))}
    \cup {f \in {"education"} : \E v \in body.education : v.t # "str"}

profileUpdateSanitize(body) ==
    [body EXCEPT !.name = {Str(Trim(JsString(v))) : v \in body.name}]

(* ------------------------------ requests ------------------------------ *)
NoBody == <<>>

Slot(pc, route, header, body) ==
    [pc |-> pc, route |-> route, header |-> header, body |-> body,
     user |-> {}, at |-> 0, verified |-> {}, ranHandler |-> FALSE, ops |-> <<>>,
     status |-> 0, error |-> "", errors |-> {}, token |-> {}, data |-> {},
     wrote |-> FALSE]

Idle == Slot("idle", "none", <<>>, NoBody)

Reply(s, status, error) == [s EXCEPT !.pc = "done", !.status = status, !.error = error]

ReplyErrors(s, errs) == [s EXCEPT !.pc = "done", !.status = 400, !.errors = errs]

ReplyToken(s, status, t) == [s EXCEPT !.pc = "done", !.status = status, !.token = {t}]

ReplyData(s, status, d) == [s EXCEPT !.pc = "done", !.status = status, !.data = d]

Free(r) == req[r].pc \in {"idle", "done"}

NotAuthorized == "Not authorized to access this route"

(* --------------------------- Access guard ----------------------------- *)
(* mutant: the guard stamping the document it resolved                    *)
protectTouches(r, route, header, body) ==
    /\ Free(r)
    /\ LET s0 == [Slot("guard", route, header, body) EXCEPT !.at = now]
           tk == ExtractToken(header)
           decoded == UNION {JwtVerify(tokenStr, now) : tokenStr \in tk}
           found == UNION {FindById(users, d.id) : d \in decoded}
       IN IF decoded = {}
          THEN /\ req' = [req EXCEPT ![r] = Reply([s0 EXCEPT !.verified = tk], 401, NotAuthorized)]
               /\ users' = users
          ELSE /\ req' = [req EXCEPT ![r] =
                            [s0 EXCEPT !.verified = tk,
                                       !.pc = "handler",
                                       !.user = {Select(u) : u \in found},
                                       !.ops = <<"findById">>]]
               /\ users' = (users \ found) \cup {[u EXCEPT !.updatedAt = now] : u \in found}
    /\ UNCHANGED <<nextId, now, issued>>
    /\ UNCHANGED client

(* protect: arrival of a request on a protected route                     *)
protect(r, route, header, body) ==
    /\ Free(r)
    /\ LET s0 == [Slot("guard", route, header, body) EXCEPT !.at = now]
           tk == ExtractToken(header)
       IN IF tk = {}
          THEN req' = [req EXCEPT ![r] = Reply(s0, 401, NotAuthorized)]
          ELSE LET tokenStr == CHOOSE x \in tk : TRUE
                   decoded == JwtVerify(tokenStr, now)
                   s1 == [s0 EXCEPT !.verified = tk]
               IN IF decoded = {}
                  THEN req' = [req EXCEPT ![r] = Reply(s1, 401, NotAuthorized)]
                  ELSE LET d == CHOOSE x \in decoded : TRUE
                       IN req' = [req EXCEPT ![r] =
                                    [s1 EXCEPT !.pc = "handler",
                                               !.user = {Select(u) : u \in FindById(users, d.id)},
                                               !.ops = <<"findById">>]]
    /\ UNCHANGED <<users, nextId, now, issued>>
    /\ UNCHANGED client

(* --------------------------- Profile service --------------------------- *)
(* mutant: the handler without its test for a missing record              *)
getUserProfileNoCheck(r) ==
    /\ req[r].pc = "handler"
    /\ req[r].route = "getProfile"
    /\ LET s == [req[r] EXCEPT !.ranHandler = TRUE]
       IN IF s.user = {}
          THEN req' = [req EXCEPT ![r] = Reply(s, 500, "Server error")]
          ELSE LET id == (CHOOSE u \in s.user : TRUE)._id
                   s1 == [s EXCEPT !.ops = Append(s.ops, "findById")]
               IN req' = [req EXCEPT ![r] =
                            ReplyData(s1, 200, {Select(u) : u \in FindById(users, id)})]
    /\ UNCHANGED <<users, nextId, now, issued>>
    /\ UNCHANGED client

getUserProfile(r) ==
    /\ req[r].pc = "handler"
    /\ req[r].route = "getProfile"
    /\ LET s == [req[r] EXCEPT !.ranHandler = TRUE]
       IN IF s.user = {}
          THEN req' = [req EXCEPT ![r] = Reply(s, 500, "Server error")]
          ELSE LET id == (CHOOSE u \in s.user : TRUE)._id
                   found == FindById(users, id)
                   s1 == [s EXCEPT !.ops = Append(s.ops, "findById")]
               IN IF found = {}
                  THEN req' = [req EXCEPT ![r] = Reply(s1, 404, "User not found")]
                  ELSE req' = [req EXCEPT ![r] = ReplyData(s1, 200, {Select(u) : u \in found})]
    /\ UNCHANGED <<users, nextId, now, issued>>
    /\ UNCHANGED client

(* mutant: experience tested for truthiness like the other fields          *)
UpdateFieldsTruthy(body) ==
    [name |-> {v \in body.name : Truthy(v)},
     skills |-> {v \in body.skills : Truthy(v)},
     experience |-> {v \in body.experience : Truthy(v)},
     education |-> {v \in body.education : Truthy(v)}]

(* lines 411-416: the update object built from the request body            *)
UpdateFields(body) ==
    [name |-> {v \in body.name : Truthy(v)},
     skills |-> {v \in body.skills : Truthy(v)},
     experience |-> body.experience,
     education |-> {v \in body.education : Truthy(v)}]

(* Mongoose casts of an update value to the schema type of its path; the   *)
(* empty set is a CastError.  (An empty string for a Number path, which    *)
(* Mongoose turns into null, is not among the inputs drawn.)               *)
CastString(v) ==
    CASE v.t = "num" -> {NumToStr(v.n)}
      [] v.t = "str" -> {v.s}
      [] OTHER -> {}

CastNumber(v) ==
    CASE v.t = "num" -> {v.n}
      [] v.t = "str" -> IF IsNumericStr(v.s) THEN {StrToNum(v.s)} ELSE {}
      [] OTHER -> {}

CastStringArray(v) ==
    CASE v.t = "arr" -> {v.a}
      [] v.t = "str" -> {<<v.s>>}
      [] OTHER -> {<<NumToStr(v.n)>>}

CastUpdate(uf) ==
    [name |-> UNION {{Trim(x) : x \in CastString(v)} : v \in uf.name},
     skills |-> UNION {CastStringArray(v) : v \in uf.skills},
     experience |-> UNION {CastNumber(v) : v \in uf.experience},
     education |-> UNION {CastString(v) : v \in uf.education}]

CastError(uf) ==
    \/ \E v \in uf.name : CastString(v) = {}
    \/ \E v \in uf.experience : CastNumber(v) = {}
    \/ \E v \in uf.education : CastString(v) = {}

(* mutant: the update run without runValidators                            *)
UpdateNotValidated(cu) == FALSE

(* runValidators: true runs the schema validators of the paths being set  *)
UpdateValidationError(cu) == \E n \in cu.name : n = <<>> \/ Len(n) > NameMax

(* mutant: the document replaced by the update object, paths that are not *)
(* in it back at their schema defaults                                     *)
ApplyOverwrite(u, cu) ==
    [u EXCEPT !.name = IF cu.name = {} THEN @ ELSE CHOOSE x \in cu.name : TRUE,
              !.skills = IF cu.skills = {} THEN <<>> ELSE CHOOSE x \in cu.skills : TRUE,
              !.experience = IF cu.experience = {} THEN 0 ELSE CHOOSE x \in cu.experience : TRUE,
              !.education = IF cu.education = {} THEN <<>> ELSE CHOOSE x \in cu.education : TRUE]

(* $set: only the paths present in the update object change; a query      *)
(* update runs no save middleware                                          *)
ApplySet(u, cu) ==
    [u EXCEPT !.name = IF cu.name = {} THEN @ ELSE CHOOSE x \in cu.name : TRUE,
              !.skills = IF cu.skills = {} THEN @ ELSE CHOOSE x \in cu.skills : TRUE,
              !.experience = IF cu.experience = {} THEN @ ELSE CHOOSE x \in cu.experience : TRUE,
              !.education = IF cu.education = {} THEN @ ELSE CHOOSE x \in cu.education : TRUE]

(* mutant: the document the guard attached modified and saved whole        *)
updateUserProfileSave(r) ==
    /\ req[r].pc = "handler"
    /\ req[r].route = "putProfile"
    /\ LET s == [req[r] EXCEPT !.ranHandler = TRUE]
           uf == UpdateFields(profileUpdateSanitize(s.body))
       IN IF s.user = {} \/ CastError(uf) \/ UpdateValidationError(CastUpdate(uf))
          THEN /\ req' = [req EXCEPT ![r] = Reply(s, 500, "Server error")]
               /\ users' = users
          ELSE LET doc == CHOOSE u \in s.user : TRUE
                   found == FindById(users, doc._id)
                   s1 == [s EXCEPT !.ops = Append(s.ops, "save")]
               IN IF found = {}
                  THEN /\ req' = [req EXCEPT ![r] = Reply(s1, 404, "User not found")]
                       /\ users' = users
                  ELSE LET old == CHOOSE u \in found : TRUE
                           new == ApplySet([old EXCEPT !.name = doc.name,
                                                       !.skills = doc.skills,
                                                       !.experience = doc.experience,
                                                       !.education = doc.education],
                                           CastUpdate(uf))
                       IN /\ users' = (users \ found) \cup {new}
                          /\ req' = [req EXCEPT ![r] =
                                       [ReplyData(s1, 200, {Select(new)}) EXCEPT !.wrote = TRUE]]
    /\ UNCHANGED <<nextId, now, issued>>
    /\ UNCHANGED client

(* mutant: the update written before its values are validated             *)
updateUserProfileWriteFirst(r) ==
    /\ req[r].pc = "handler"
    /\ req[r].route = "putProfile"
    /\ LET s == [req[r] EXCEPT !.ranHandler = TRUE]
           uf == UpdateFields(profileUpdateSanitize(s.body))
           found == UNION {FindById(users, u._id) : u \in s.user}
           s1 == [s EXCEPT !.ops = Append(s.ops, "findByIdAndUpdate")]
       IN IF s.user = {}
          THEN /\ req' = [req EXCEPT ![r] = Reply(s, 500, "Server error")]
               /\ users' = users
          ELSE IF found = {}
          THEN /\ req' = [req EXCEPT ![r] = Reply(s1, 404, "User not found")]
               /\ users' = users
          ELSE LET new == ApplySet(CHOOSE u \in found : TRUE, CastUpdate(uf))
               IN /\ users' = (users \ found) \cup {new}
                  /\ req' = [req EXCEPT ![r] =
                               IF CastError(uf) \/ UpdateValidationError(CastUpdate(uf))
                               THEN Reply(s1, 500, "Server error")
                               ELSE [ReplyData(s1, 200, {Select(new)}) EXCEPT !.wrote = TRUE]]
    /\ UNCHANGED <<nextId, now, issued>>
    /\ UNCHANGED client

updateUserProfile(r) ==
    /\ req[r].pc = "handler"
    /\ req[r].route = "putProfile"
    /\ LET s == [req[r] EXCEPT !.ranHandler = TRUE]
           uf == UpdateFields(profileUpdateSanitize(s.body))
       IN IF s.user = {} \/ CastError(uf) \/ UpdateValidationError(CastUpdate(uf))
          THEN /\ req' = [req EXCEPT ![r] = Reply(s, 500, "Server error")]
               /\ users' = users
          ELSE LET id == (CHOOSE u \in s.user : TRUE)._id
                   found == FindById(users, id)
                   s1 == [s EXCEPT !.ops = Append(s.ops, "findByIdAndUpdate")]
               IN IF found = {}
                  THEN /\ req' = [req EXCEPT ![r] = Reply(s1, 404, "User not found")]
                       /\ users' = users
                  ELSE LET new == ApplySet(CHOOSE u \in found : TRUE, CastUpdate(uf))
                       IN /\ users' = (users \ found) \cup {new}
                          /\ req' = [req EXCEPT ![r] =
                                       [ReplyData(s1, 200, {Select(new)}) EXCEPT !.wrote = TRUE]]
    /\ UNCHANGED <<nextId, now, issued>>
    /\ UNCHANGED client

(* ------------------------------ Auth flow ------------------------------ *)
(* getMe: returns the record of the authenticated user                     *)
getMe(r) ==
    /\ req[r].pc = "handler"
    /\ req[r].route = "me"
    /\ LET s == [req[r] EXCEPT !.ranHandler = TRUE]
       IN IF s.user = {}
          THEN req' = [req EXCEPT ![r] = Reply(s, 500, "Server error")]
          ELSE LET id == (CHOOSE u \in s.user : TRUE)._id
                   s1 == [s EXCEPT !.ops = Append(s.ops, "findById")]
               IN req' = [req EXCEPT ![r] =
                            ReplyData(s1, 200, {Select(u) : u \in FindById(users, id)})]
    /\ UNCHANGED <<users, nextId, now, issued>>
    /\ UNCHANGED client

Inserting == {r \in Reqs : req[r].pc = "insert"}

(* register, up to and including the lookup of the email                   *)
registerLookup(r, body) ==
    /\ Free(r)
    /\ nextId + Cardinality(Inserting) <= MaxUsers
    /\ LET s0 == [Slot("lookup", "register", <<>>, body) EXCEPT !.at = now]
           errs == registerValidator(body)
           clean == registerSanitize(body)
           s1 == [s0 EXCEPT !.ops = <<"findOne">>]
       IN IF errs # {}
          THEN req' = [req EXCEPT ![r] = ReplyErrors(s0, errs)]
          ELSE IF FindByEmail(users, clean.email) # {}
          THEN req' = [req EXCEPT ![r] = Reply(s1, 400, "User already exists")]
          ELSE req' = [req EXCEPT ![r] = [s1 EXCEPT !.pc = "insert"]]
    /\ UNCHANGED <<users, nextId, now, issued>>
    /\ UNCHANGED client

(* register, the creation of the record and the answer                     *)
registerInsert(r) ==
    /\ req[r].pc = "insert"
    /\ LET s == [req[r] EXCEPT !.ops = Append(req[r].ops, "create")]
           clean == registerSanitize(s.body)
           doc == NewUser(nextId, clean.name, clean.email, clean.password, now)
       IN IF SchemaErrors(doc) # {}
          THEN /\ req' = [req EXCEPT ![r] = Reply(req[r], 500, "Server error")]
               /\ UNCHANGED <<users, nextId, issued>>
          ELSE IF ~UniqueEmailOk(users, doc.email)
          THEN /\ req' = [req EXCEPT ![r] = Reply(s, 400, "User already exists")]
               /\ UNCHANGED <<users, nextId, issued>>
          ELSE LET t == getSignedJwtToken(doc._id, now)
               IN /\ users' = users \cup {PreSave(doc, now)}
                  /\ nextId' = nextId + 1
                  /\ issued' = issued \cup {t}
                  /\ req' = [req EXCEPT ![r] = [ReplyToken(s, 201, t) EXCEPT !.wrote = TRUE]]
    /\ now' = now
    /\ UNCHANGED client

login(r, body) ==
    /\ Free(r)
    /\ LET clean == loginSanitize(body)
           s == [Slot("login", "login", <<>>, body) EXCEPT !.at = now, !.ops = <<"findOne">>]
           found == FindByEmail(users, clean.email)
       IN IF found = {}
          THEN /\ req' = [req EXCEPT ![r] = Reply(s, 401, "Invalid credentials")]
               /\ issued' = issued
          ELSE LET u == CHOOSE x \in found : TRUE
               IN IF ~Compare(clean.password, u.password)
                  THEN /\ req' = [req EXCEPT ![r] = Reply(s, 401, "Invalid credentials")]
                       /\ issued' = issued
                  ELSE LET t == getSignedJwtToken(u._id, now)
                       IN /\ req' = [req EXCEPT ![r] = ReplyToken(s, 200, t)]
                          /\ issued' = issued \cup {t}
    /\ UNCHANGED <<users, nextId, now>>
    /\ UNCHANGED client

(* ----------------------------- environment ----------------------------- *)
Tick ==
    /\ now < MaxTime
    /\ now' = now + 1
    /\ UNCHANGED <<users, nextId, issued, req>>
    /\ UNCHANGED client

(* a record removed from the collection from outside the application      *)
DeleteUser ==
    /\ \E u \in users : users' = users \ {u}
    /\ UNCHANGED <<nextId, now, issued, req>>
    /\ UNCHANGED client

(* ========================== the browser client ========================= *)
(* AuthProvider's reducer state, localStorage, the axios default header,   *)
(* the router's location and the requests the client has in flight.  A     *)
(* dispatch applies the reducer at once; the render that follows, with the *)
(* effects of the components it mounts, is the step Commit, which runs     *)
(* before anything else happens.                                           *)
Null == "null"

(* the tokens a browser can hold, by the answer GET /api/auth/me gives:    *)
(* the record, a body with data null (record gone), or 401                 *)
Valid == "valid"
Orphan == "orphan"
Expired == "expired"

ClientTokens == {Valid, Orphan, Expired}

Routes == {"/", "/login", "/register", "/profile"}

UserData == "user"

initialState(stored) ==
    [token |-> stored, isAuthenticated |-> FALSE, loading |-> FALSE,
     user |-> Null, error |-> Null]

Action(type, payload) == [type |-> type, payload |-> payload]

(* mutant: AUTH_ERROR keeping the user that was loaded                     *)
authReducerKeepsUser(st, action) ==
    CASE action.type \in {"REGISTER_REQUEST", "LOGIN_REQUEST"} ->
             [st EXCEPT !.loading = TRUE, !.error = Null]
      [] action.type \in {"REGISTER_SUCCESS", "LOGIN_SUCCESS"} ->
             [st EXCEPT !.token = action.payload, !.isAuthenticated = TRUE,
                        !.loading = FALSE, !.error = Null]
      [] action.type \in {"REGISTER_FAIL", "LOGIN_FAIL"} ->
             [st EXCEPT !.token = Null, !.isAuthenticated = FALSE,
                        !.loading = FALSE, !.user = Null, !.error = action.payload]
      [] action.type = "AUTH_ERROR" ->
             [st EXCEPT !.token = Null, !.loading = FALSE,
                        !.error = "Authentication error"]
      [] action.type = "USER_LOADED" ->
             [st EXCEPT !.isAuthenticated = TRUE, !.loading = FALSE,
                        !.user = action.payload]
      [] action.type = "LOGOUT" ->
             [st EXCEPT !.token = Null, !.isAuthenticated = FALSE,
                        !.loading = FALSE, !.user = Null]
      [] action.type = "CLEAR_ERRORS" -> [st EXCEPT !.error = Null]
      [] OTHER -> st

authReducer(st, action) ==
    CASE action.type \in {"REGISTER_REQUEST", "LOGIN_REQUEST"} ->
             [st EXCEPT !.loading = TRUE, !.error = Null]
      [] action.type \in {"REGISTER_SUCCESS", "LOGIN_SUCCESS"} ->
             [st EXCEPT !.token = action.payload, !.isAuthenticated = TRUE,
                        !.loading = FALSE, !.error = Null]
      [] action.type \in {"REGISTER_FAIL", "LOGIN_FAIL", "AUTH_ERROR"} ->
             [st EXCEPT !.token = Null, !.isAuthenticated = FALSE,
                        !.loading = FALSE, !.user = Null,
                        !.error = IF action.type = "AUTH_ERROR"
                                  THEN "Authentication error" ELSE action.payload]
      [] action.type = "USER_LOADED" ->
             [st EXCEPT !.isAuthenticated = TRUE, !.loading = FALSE,
                        !.user = action.payload]
      [] action.type = "LOGOUT" ->
             [st EXCEPT !.token = Null, !.isAuthenticated = FALSE,
                        !.loading = FALSE, !.user = Null]
      [] action.type = "CLEAR_ERRORS" -> [st EXCEPT !.error = Null]
      [] OTHER -> st

(* a reducer whose LOGOUT leaves the stored token                          *)
reducerStorageKeeps(stored, action) ==
    CASE action.type \in {"REGISTER_SUCCESS", "LOGIN_SUCCESS"} -> action.payload
      [] action.type \in {"REGISTER_FAIL", "LOGIN_FAIL", "AUTH_ERROR"} -> Null
      [] OTHER -> stored

(* the localStorage calls the reducer makes (lines 28, 39, 56)             *)
reducerStorage(stored, action) ==
    CASE action.type \in {"REGISTER_SUCCESS", "LOGIN_SUCCESS"} -> action.payload
      [] action.type \in {"REGISTER_FAIL", "LOGIN_FAIL", "AUTH_ERROR", "LOGOUT"} -> Null
      [] OTHER -> stored

(* what the provider's functions read and write                            *)
Ctx == [state |-> state, ls |-> localStorage, axios |-> axiosAuth, loads |-> loads]

Put(c) ==
    /\ state' = c.state
    /\ localStorage' = c.ls
    /\ axiosAuth' = c.axios
    /\ loads' = c.loads

dispatch(c, action) ==
    [c EXCEPT !.state = authReducer(c.state, action),
              !.ls = reducerStorage(c.ls, action)]

(* loadUser up to its await, `seen` being what localStorage.token reads:   *)
(* with a token LOGIN_REQUEST is dispatched, the header set and GET        *)
(* /api/auth/me sent with it; without one the header is deleted            *)
loadUserSeeing(c, seen) ==
    IF seen # Null
    THEN LET c1 == dispatch(c, Action("LOGIN_REQUEST", Null))
         IN [c1 EXCEPT !.axios = seen, !.loads = [c.loads EXCEPT ![seen] = @ + 1]]
    ELSE [c EXCEPT !.axios = Null]

loadUser(c) == loadUserSeeing(c, c.ls)

InFlight == loads[Valid] + loads[Orphan] + loads[Expired]

(* a loadUser whose refused answer leaves the token in localStorage        *)
loadUserResponseKeepsToken(t) ==
    /\ ~dirty
    /\ loads[t] > 0
    /\ LET c0 == [Ctx EXCEPT !.loads = [loads EXCEPT ![t] = @ - 1]]
       IN IF t = Valid
          THEN Put(dispatch(c0, Action("USER_LOADED", UserData)))
          ELSE Put([dispatch(c0, Action("AUTH_ERROR", Null)) EXCEPT !.ls = c0.ls])
    /\ dirty' = TRUE
    /\ UNCHANGED <<location, mounted, posts, saves, clicks>>
    /\ UNCHANGED server

(* loadUser after its await: the answer to a GET /api/auth/me sent with t  *)
loadUserResponse(t) ==
    /\ ~dirty
    /\ loads[t] > 0
    /\ LET c0 == [Ctx EXCEPT !.loads = [loads EXCEPT ![t] = @ - 1]]
       IN IF t = Valid
          THEN Put(dispatch(c0, Action("USER_LOADED", UserData)))
          ELSE Put([dispatch(c0, Action("AUTH_ERROR", Null)) EXCEPT !.ls = Null])
    /\ dirty' = TRUE
    /\ UNCHANGED <<location, mounted, posts, saves, clicks>>
    /\ UNCHANGED server

(* login and register of the provider up to their await, called by the     *)
(* submit of the Login and Register forms (button disabled while loading)  *)
submit(kind) ==
    /\ ~dirty
    /\ clicks < MaxClicks
    /\ location = (IF kind = "LOGIN" THEN "/login" ELSE "/register")
    /\ ~state.loading
    /\ LET c1 == dispatch(Ctx, Action("CLEAR_ERRORS", Null))
       IN Put(dispatch(c1, Action(kind \o "_REQUEST", Null)))
    /\ posts' = [posts EXCEPT ![kind] = @ + 1]
    /\ clicks' = clicks + 1
    /\ dirty' = TRUE
    /\ UNCHANGED <<location, mounted, saves>>
    /\ UNCHANGED server

(* login and register after their await: SUCCESS with the token and the    *)
(* chained loadUser, or FAIL with the message.  The reducer's setItem has  *)
(* run or not yet run when the chained loadUser reads localStorage,        *)
(* depending on when React evaluates a dispatched action.                  *)
submitResponse(kind) ==
    /\ ~dirty
    /\ posts[kind] > 0
    /\ posts' = [posts EXCEPT ![kind] = @ - 1]
    /\ \E ok \in BOOLEAN, eager \in BOOLEAN :
           IF ok
           THEN LET c1 == dispatch(Ctx, Action(kind \o "_SUCCESS", Valid))
                IN Put(loadUserSeeing(c1, IF eager THEN c1.ls ELSE localStorage))
           ELSE /\ eager
                /\ Put(dispatch(Ctx, Action(kind \o "_FAIL", "failed")))
    /\ dirty' = TRUE
    /\ UNCHANGED <<location, mounted, saves, clicks>>
    /\ UNCHANGED server

(* Navbar's Logout button, shown when authenticated                        *)
logout ==
    /\ ~dirty
    /\ clicks < MaxClicks
    /\ state.isAuthenticated
    /\ Put(dispatch(Ctx, Action("LOGOUT", Null)))
    /\ clicks' = clicks + 1
    /\ dirty' = TRUE
    /\ UNCHANGED <<location, mounted, posts, saves>>
    /\ UNCHANGED server

(* the cleanup of the Login and Register effects; it runs again at every   *)
(* render (clearErrors is a new function each time), which changes the     *)
(* state only while an error is set                                        *)
clearErrors ==
    /\ ~dirty
    /\ location \in {"/login", "/register"}
    /\ state.error # Null
    /\ Put(dispatch(Ctx, Action("CLEAR_ERRORS", Null)))
    /\ dirty' = TRUE
    /\ UNCHANGED <<location, mounted, posts, saves, clicks>>
    /\ UNCHANGED server

(* Profile's onSubmit up to the await of its PUT; the form is rendered     *)
(* when PrivateRoute shows its children and the user is loaded             *)
onSubmit ==
    /\ ~dirty
    /\ clicks < MaxClicks
    /\ location = "/profile" /\ mounted
    /\ ~state.loading /\ state.isAuthenticated /\ state.user # Null
    /\ saves' = saves + 1
    /\ clicks' = clicks + 1
    /\ UNCHANGED <<state, localStorage, axiosAuth, location, mounted, loads, posts, dirty>>
    /\ UNCHANGED server

(* Profile's onSubmit after the await: loadUser when the PUT succeeded      *)
onSubmitResponse ==
    /\ ~dirty
    /\ saves > 0
    /\ saves' = saves - 1
    /\ \E ok \in BOOLEAN :
           IF ok THEN Put(loadUser(Ctx)) /\ dirty' = TRUE
           ELSE UNCHANGED <<state, localStorage, axiosAuth, loads, dirty>>
    /\ UNCHANGED <<location, mounted, posts, clicks>>
    /\ UNCHANGED server

(* a link, the address bar or the history buttons                          *)
navigate(to) ==
    /\ ~dirty
    /\ clicks < MaxClicks
    /\ to # location
    /\ location' = to
    /\ clicks' = clicks + 1
    /\ dirty' = TRUE
    /\ UNCHANGED <<state, localStorage, axiosAuth, mounted, loads, posts, saves>>
    /\ UNCHANGED server

(* what PrivateRoute renders for the state of a render                     *)
PrivateRoute(st) ==
    IF st.loading THEN "spinner"
    ELSE IF st.isAuthenticated THEN "children" ELSE "Navigate"

(* a render and the effects of its commit, children before parents, each   *)
(* effect testing the state of that render and the live localStorage:      *)
(* Profile (when rendered), PrivateRoute (on mount), AuthProvider; and the *)
(* navigation of Navigate or of the Login and Register effect             *)
Commit ==
    /\ dirty
    /\ LET st == state
           noUser == st.user = Null /\ ~st.loading
           c0 == Ctx
           c1 == IF location = "/profile" /\ PrivateRoute(st) = "children"
                    /\ noUser /\ c0.ls # Null
                 THEN loadUser(c0) ELSE c0
           c2 == IF location = "/profile" /\ ~mounted /\ noUser /\ c1.ls # Null
                 THEN loadUser(c1) ELSE c1
           c3 == IF c2.ls # Null /\ noUser THEN loadUser(c2) ELSE c2
           to == IF location = "/profile" /\ PrivateRoute(st) = "Navigate" THEN "/login"
                 ELSE IF location \in {"/login", "/register"} /\ st.isAuthenticated
                 THEN "/profile" ELSE location
       IN /\ Put(c3)
          /\ location' = to
          /\ mounted' = (location = "/profile")
          /\ dirty' = (c3.state # st \/ to # location)
    /\ UNCHANGED <<posts, saves, clicks>>
    /\ UNCHANGED server

(* ------------------------------- inputs -------------------------------- *)
Ann == <<"A", "n", "n">>
BobPadded == <<" ", "B", "o", "b", " ">>
Blank == <<" ", " ">>
LongName == Rep("x", NameMax + 1)
PaddedName == <<" ">> \o Rep("x", NameMax)

AnnMail == Email(<<"a", "n", "n">>, TRUE, <<"c", "o", "m">>)
AnnMailUpper == Email(<<"A", "n", "n">>, TRUE, <<"c", "o", "m">>)
BobMail == Email(<<"b", "o", "b">>, TRUE, <<"c", "o", "m">>)
InfoMail == Email(<<"b", "o", "b">>, TRUE, <<"i", "n", "f", "o">>)
NoAtMail == Email(<<"a", "n", "n">>, FALSE, <<"c", "o", "m">>)

Secret == <<"s", "e", "c", "r", "e", "t">>
Secret7 == <<"s", "e", "c", "r", "e", "t", "1">>
Short == <<"a", "b", "c">>

RegBody(n, e, p) == [name |-> n, email |-> e, password |-> p]

RegBodies ==
    {RegBody(Ann, AnnMail, Secret), RegBody(Ann, AnnMailUpper, Secret7),
     RegBody(BobPadded, BobMail, Secret), RegBody(Ann, InfoMail, Secret),
     RegBody(<<>>, BobMail, Secret), RegBody(Ann, NoAtMail, Secret),
     RegBody(Ann, BobMail, Short), RegBody(Blank, BobMail, Secret),
     RegBody(LongName, BobMail, Secret), RegBody(PaddedName, BobMail, Secret)}

LoginBody(e, p) == [email |-> e, password |-> p]

LoginBodies ==
    {LoginBody(AnnMail, Secret), LoginBody(AnnMailUpper, Secret),
     LoginBody(AnnMail, Short), LoginBody(BobMail, Secret), LoginBody(NoAtMail, Secret)}

Patch(n, s, x, e) == [name |-> n, skills |-> s, experience |-> x, education |-> e]

Go == <<"G", "o">>
BSc == <<"B", "S", "c">>

PutBodies ==
    {Patch({}, {}, {Num(5)}, {}),
     Patch({Str(BobPadded)}, {Arr(<<Go>>)}, {}, {Str(BSc)}),
     Patch({}, {}, {Str(<<"a", "b">>)}, {}),
     Patch({Str(LongName)}, {}, {}, {}),
     Patch({}, {Str(Go)}, {}, {}),
     Patch({}, {}, {}, {Num(7)})}

Bearer(t) == <<Lit("Bearer"), Lit(" "), Tok(t)>>

Headers ==
    {<<>>, <<Lit("Bearer")>>, <<Lit("Bearer"), Lit(" "), Lit("x")>>}
    \cup {Bearer(t) : t \in issued}
    \cup {Bearer(Tamper(t)) : t \in issued}
    \cup {<<Lit("Bearer"), Lit("x"), Lit(" "), Tok(t)>> : t \in issued}
    \cup {<<Lit("Bearer"), Lit(" "), Lit(" "), Tok(t)>> : t \in issued}
    \cup {<<Lit("Bearer"), Tok(t)>> : t \in issued}
    \cup {<<Lit("x"), Lit(" "), Tok(t)>> : t \in issued}
    \cup {<<Tok(t)>> : t \in issued}

(* the browser before its first render: no request in flight              *)
ClientStart(stored, path) ==
    /\ state = initialState(stored)
    /\ localStorage = stored
    /\ axiosAuth = Null
    /\ location = path
    /\ mounted = FALSE
    /\ loads = [t \in ClientTokens |-> 0]
    /\ posts = [k \in {"LOGIN", "REGISTER"} |-> 0]
    /\ saves = 0
    /\ dirty = TRUE
    /\ clicks = 0

ServerStart ==
    /\ users = {}
    /\ nextId = 1
    /\ now = 0
    /\ issued = {}
    /\ req = [r \in Reqs |-> Idle]

Init == ServerStart /\ ClientStart(Null, "/")

(* -------------------- the client, any stored token --------------------- *)
InitClient ==
    /\ ServerStart
    /\ \E stored \in ClientTokens \cup {Null}, path \in Routes :
           ClientStart(stored, path)

LoadUserResponse == \E t \in ClientTokens : loadUserResponse(t)

Submit == \E kind \in {"LOGIN", "REGISTER"} : submit(kind)

SubmitResponse == \E kind \in {"LOGIN", "REGISTER"} : submitResponse(kind)

Navigate == \E to \in Routes : navigate(to)

NextClient ==
    \/ Commit \/ LoadUserResponse \/ Submit \/ SubmitResponse
    \/ logout \/ clearErrors \/ onSubmit \/ onSubmitResponse \/ Navigate

SpecClient == InitClient /\ [][NextClient]_vars

(* every request is answered and every pending render is made              *)
ClientFairness ==
    /\ WF_vars(Commit)
    /\ WF_vars(LoadUserResponse)
    /\ WF_vars(SubmitResponse)
    /\ WF_vars(onSubmitResponse)

SpecClientFair == SpecClient /\ ClientFairness

(* The reducer alone: any action of AuthAction, in any order.              *)
Messages == {"Invalid credentials", "Registration failed"}

AuthActions ==
    {Action(t, Null) : t \in {"REGISTER_REQUEST", "LOGIN_REQUEST", "AUTH_ERROR",
                              "LOGOUT", "CLEAR_ERRORS"}}
    \cup {Action(t, tok) : t \in {"REGISTER_SUCCESS", "LOGIN_SUCCESS"},
                           tok \in ClientTokens}
    \cup {Action(t, m) : t \in {"REGISTER_FAIL", "LOGIN_FAIL"}, m \in Messages}
    \cup {Action("USER_LOADED", UserData)}

Dispatch ==
    /\ \E a \in AuthActions : Put(dispatch(Ctx, a))
    /\ UNCHANGED <<location, mounted, posts, saves, dirty, clicks>>
    /\ UNCHANGED server

SpecReducer == InitClient /\ [][Dispatch]_vars

(* ------------------- registration, concurrent requests ----------------- *)
RegisterLookup == \E r \in Reqs, b \in RegBodies : registerLookup(r, b)

RegisterInsert == \E r \in Reqs : registerInsert(r)

Next == RegisterLookup \/ RegisterInsert

Spec == Init /\ [][Next]_vars

(* ------------------------- registration and login ---------------------- *)
LoginRegister ==
    \/ \E b \in {RegBody(Ann, AnnMail, Secret), RegBody(BobPadded, BobMail, Secret)} :
           registerLookup(1, b)
    \/ registerInsert(1)

Login == \E r \in Reqs, b \in LoginBodies : login(r, b)

NextLogin == LoginRegister \/ Login

SpecLogin == Init /\ [][NextLogin]_vars

(* ---------- access guard: one request at a time, time passing ---------- *)
GuardRegister ==
    \/ \E b \in {RegBody(Ann, AnnMail, Secret)} : registerLookup(1, b)
    \/ registerInsert(1)

Protect ==
    \E h \in Headers :
        \/ protect(1, "getProfile", h, NoBody)
        \/ protect(1, "putProfile", h, Patch({}, {}, {Num(5)}, {}))
        \/ protect(1, "me", h, NoBody)

Handle == getUserProfile(1) \/ updateUserProfile(1) \/ getMe(1)

NextGuard == GuardRegister \/ Protect \/ Handle \/ Tick

SpecGuard == Init /\ [][NextGuard]_vars

(* the same when records can also vanish from the collection              *)
NextGuardDel == NextGuard \/ DeleteUser

SpecGuardDel == Init /\ [][NextGuardDel]_vars

(* ------------------- profile update, request bodies -------------------- *)
ProfileProtect ==
    \E h \in {<<>>} \cup {Bearer(t) : t \in issued} :
        \/ protect(1, "getProfile", h, NoBody)
        \/ \E b \in PutBodies : protect(1, "putProfile", h, b)

ProfileHandle == getUserProfile(1) \/ updateUserProfile(1)

NextProfile == GuardRegister \/ ProfileProtect \/ ProfileHandle

SpecProfile == Init /\ [][NextProfile]_vars

(* ------------- profile update: wider bodies, records vanishing --------- *)
(* a body that also carries keys the handler does not destructure          *)
PatchExtra(n, s, x, e, role, email, password) ==
    [name |-> n, skills |-> s, experience |-> x, education |-> e,
     role |-> role, email |-> email, password |-> password]

Admin == <<"a", "d", "m", "i", "n">>

UpdateBodies ==
    {Patch({}, {}, {Num(5)}, {}),
     Patch({Str(BobPadded)}, {Arr(<<Go>>)}, {Num(0)}, {Str(BSc)}),
     Patch({}, {}, {Num(-1)}, {}),
     Patch({}, {}, {Str(<<"7">>)}, {}),
     Patch({Str(<<>>)}, {Arr(<<>>)}, {}, {Str(<<>>)}),
     Patch({Str(Blank)}, {}, {}, {}),
     Patch({Str(LongName)}, {}, {Num(5)}, {}),
     Patch({}, {}, {Str(<<"a", "b">>)}, {}),
     PatchExtra({}, {Arr(<<Go>>)}, {}, {}, {Str(Admin)}, {Str(<<"x">>)}, {Str(Short)})}

UpdateRegister ==
    \/ \E b \in {RegBody(Ann, AnnMail, Secret), RegBody(Blank, BobMail, Secret),
                 RegBody(LongName, BobMail, Secret), RegBody(<<>>, BobMail, Secret)} :
           registerLookup(1, b)
    \/ registerInsert(1)

UpdateProtect ==
    \E h \in {<<>>} \cup {Bearer(t) : t \in issued} :
        \/ protect(1, "getProfile", h, NoBody)
        \/ \E b \in UpdateBodies : protect(1, "putProfile", h, b)

NextUpdate == UpdateRegister \/ UpdateProtect \/ ProfileHandle \/ DeleteUser

SpecUpdate == Init /\ [][NextUpdate]_vars

(* --------- every endpoint, one request at a time, time passing --------- *)
ApiRegister ==
    \/ \E b \in {RegBody(Ann, AnnMail, Secret), RegBody(BobPadded, BobMail, Secret),
                 RegBody(Ann, BobMail, Short)} :
           registerLookup(1, b)
    \/ registerInsert(1)

ApiLogin ==
    \E b \in {LoginBody(AnnMail, Secret), LoginBody(AnnMail, Short),
              LoginBody(NoAtMail, Secret)} :
        login(1, b)

ApiProtect ==
    \E h \in {<<>>} \cup {Bearer(t) : t \in issued} :
        \/ protect(1, "getProfile", h, NoBody)
        \/ protect(1, "me", h, NoBody)
        \/ \E b \in {Patch({}, {}, {Num(5)}, {}), Patch({Str(LongName)}, {}, {}, {})} :
               protect(1, "putProfile", h, b)

NextApi == ApiRegister \/ ApiLogin \/ ApiProtect \/ Handle \/ Tick

SpecApi == Init /\ [][NextApi]_vars

(* ------- updates in one request slot, reads in the other, time passing -- *)
FreshRegister ==
    \/ registerLookup(2, RegBody(Ann, AnnMail, Secret))
    \/ registerInsert(2)

FreshPut ==
    \E h \in {Bearer(t) : t \in issued} :
        \E b \in {Patch({}, {}, {Num(5)}, {}), Patch({}, {}, {Num(0)}, {}),
                  Patch({Str(BobPadded)}, {}, {}, {Str(BSc)})} :
            protect(1, "putProfile", h, b)

FreshGet ==
    \E h \in {Bearer(t) : t \in issued} :
        \/ protect(2, "getProfile", h, NoBody)
        \/ protect(2, "me", h, NoBody)

FreshHandle == updateUserProfile(1) \/ getUserProfile(2) \/ getMe(2)

NextFresh == FreshRegister \/ FreshPut \/ FreshGet \/ FreshHandle \/ Tick

SpecFresh == Init /\ [][NextFresh]_vars

(* ------------- two users, two requests in flight on the profile -------- *)
PairRegister ==
    \/ \E b \in {RegBody(Ann, AnnMail, Secret), RegBody(BobPadded, BobMail, Secret)} :
           registerLookup(1, b)
    \/ registerInsert(1)

PairProtect ==
    \E h \in {Bearer(t) : t \in issued} :
        \/ protect(1, "getProfile", h, NoBody)
        \/ protect(1, "putProfile", h, Patch({}, {}, {Num(5)}, {}))
        \/ protect(2, "putProfile", h, Patch({}, {Arr(<<Go>>)}, {}, {Str(BSc)}))

PairHandle == getUserProfile(1) \/ updateUserProfile(1) \/ updateUserProfile(2)

NextPair == PairRegister \/ PairProtect \/ PairHandle

SpecPair == Init /\ [][NextPair]_vars

(* ======================= properties of the guard ======================= *)
Protected(s) == s.route \in {"me", "getProfile", "putProfile"}

(* the request got past protect: next() was called                         *)
Passed(s) == s.pc = "handler" \/ s.ranHandler

(* the header carried a token that verified when the guard ran, and the    *)
(* guard found the record of its id                                        *)
GuardHolds(s) ==
    /\ s.verified # {}
    /\ \A ts \in s.verified :
           Len(ts) = 1 /\ \E t \in ts[1].tok : t.sig = "good" /\ s.at < t.exp
    /\ s.user # {}

TokenGood(s) ==
    /\ s.verified # {}
    /\ \A ts \in s.verified :
           Len(ts) = 1 /\ \E t \in ts[1].tok : t.sig = "good" /\ s.at < t.exp

(* C1: a protected route answers 200, writes, or runs its handler at all,  *)
(* only for a request whose token verified and whose id resolved to an     *)
(* existing record when the guard ran.                                     *)
C1_HandlerOnlyBehindGuard ==
    \A r \in Reqs :
        Protected(req[r]) =>
            /\ (req[r].ranHandler => GuardHolds(req[r]))
            /\ (req[r].pc = "done" /\ req[r].status = 200 => GuardHolds(req[r]))
            /\ (req[r].wrote => GuardHolds(req[r]))

(* C2: a token that verifies but whose record is gone when the guard looks *)
(* it up is answered 401 and the handler is not called.                    *)
C2_VanishedUserRejected ==
    \A r \in Reqs :
        (Protected(req[r]) /\ TokenGood(req[r]) /\ req[r].user = {}) =>
            /\ req[r].pc = "done"
            /\ req[r].status = 401
            /\ ~req[r].ranHandler

ProperPrefix(h) == Len(h) >= 2 /\ h[1].lit = "Bearer" /\ h[2].lit = " "

(* C3: a header that is absent or does not begin with "Bearer " is         *)
(* answered 401 and nothing taken from it reaches jwt.verify.              *)
C3_BearerSpaceRequired ==
    \A r \in Reqs :
        (Protected(req[r]) /\ ~ProperPrefix(req[r].header)) =>
            /\ req[r].pc = "done"
            /\ req[r].status = 401
            /\ req[r].verified = {}

(* C4: every request that does not get through the guard, whatever the     *)
(* cause, gets 401 with the one fixed body.                                *)
C4_UniformRejection ==
    \A r \in Reqs :
        (Protected(req[r]) /\ req[r].pc = "done" /\ ~GuardHolds(req[r])) =>
            /\ req[r].status = 401
            /\ req[r].error = NotAuthorized
            /\ req[r].errors = {} /\ req[r].data = {} /\ req[r].token = {}

(* ====================== properties of registration ===================== *)
Registering(s) == s.route = "register" /\ s.pc # "idle"

(* the request is one the application accepts when it comes alone: it      *)
(* passes registerValidator and its document passes the schema             *)
Acceptable(body) ==
    /\ body.name # <<>> /\ Trim(body.name) # <<>> /\ Len(Trim(body.name)) <= NameMax
    /\ body.email.at /\ body.email.local # <<>>
    /\ Len(body.email.tld) >= TldMin /\ Len(body.email.tld) <= TldMax
    /\ Len(body.password) >= PasswordMin

Created(s) == s.pc = "done" /\ s.status = 201 /\ s.token # {}

Duplicate(s) ==
    s.pc = "done" /\ s.status = 400 /\ s.error = "User already exists" /\ s.token = {}

SameEmail(b1, b2) == Lower(b1.email.local) = Lower(b2.email.local) /\ b1.email.tld = b2.email.tld

(* C5: of the acceptable registrations with one email, however their       *)
(* lookups and inserts interleave, at most one is answered 201, every      *)
(* other finished one is answered 400 'User already exists', one record    *)
(* with that email exists as soon as one of them has finished, and no two  *)
(* records ever share an email.                                            *)
C5_OneWinnerPerEmail ==
    /\ \A u1, u2 \in users : u1.email = u2.email => u1 = u2
    /\ \A r \in Reqs :
           (Registering(req[r]) /\ Acceptable(req[r].body) /\ req[r].pc = "done") =>
               /\ Created(req[r]) \/ Duplicate(req[r])
               /\ Cardinality({u \in users : u.email.local = Lower(req[r].body.email.local)
                                              /\ u.email.tld = req[r].body.email.tld}) = 1
    /\ \A r1, r2 \in Reqs :
           (r1 # r2 /\ Registering(req[r1]) /\ Registering(req[r2])
                    /\ SameEmail(req[r1].body, req[r2].body)) =>
               ~(Created(req[r1]) /\ Created(req[r2]))

(* two registrations with one email that both passed the lookup, one       *)
(* answered 201 and the other 'User already exists' by the insert          *)
C5_Witness ==
    \E r1, r2 \in Reqs :
        /\ r1 # r2
        /\ Registering(req[r1]) /\ Registering(req[r2])
        /\ SameEmail(req[r1].body, req[r2].body)
        /\ Created(req[r1])
        /\ Duplicate(req[r2]) /\ req[r2].ops = <<"findOne", "create">>

(* C6: a registration that passes validation and whose email equals the    *)
(* email of a stored record is answered 400 'User already exists' and      *)
(* leaves the collection as it was.                                        *)
C6_SecondRegistrationFails ==
    [][\A r \in Reqs :
          (/\ Free(r)
           /\ req'[r] # req[r]
           /\ req'[r].route = "register"
           /\ Acceptable(req'[r].body)
           /\ \E u \in users : u.email = req'[r].body.email)
          => (Duplicate(req'[r]) /\ ~req'[r].wrote /\ users' = users)]_vars

C6_Witness ==
    \E r \in Reqs :
        /\ Registering(req[r])
        /\ Duplicate(req[r]) /\ req[r].ops = <<"findOne">>
        /\ \E u \in users : u.email = req[r].body.email

(* C7: every registration that passes the validators (non-blank name of at *)
(* most 50 characters, well-formed email, password of 6 or more), with an  *)
(* email that is not stored, is answered 201, creates the one record with  *)
(* that name and email (as sanitized), role user, no skills, experience 0, *)
(* empty education, and its token verifies and resolves to that record.    *)
C7_ValidRegistrationSucceeds ==
    \A r \in Reqs :
        (/\ Registering(req[r]) /\ req[r].pc = "done"
         /\ registerValidator(req[r].body) = {}
         /\ Trim(req[r].body.name) # <<>>
         /\ ~Duplicate(req[r]))
        => /\ Created(req[r])
           /\ \A t \in req[r].token :
                  /\ JwtVerify(<<Tok(t)>>, req[r].at) # {}
                  /\ \E u \in FindById(users, t.id) :
                         /\ u.name = Trim(req[r].body.name)
                         /\ u.email = NormalizeEmail(req[r].body.email)
                         /\ u.role = "user" /\ u.skills = <<>>
                         /\ u.experience = 0 /\ u.education = <<>>

(* ========================= properties of tokens ======================== *)
(* C8: protect lets a request through exactly when the token it took from  *)
(* the header is one the application issued (signature intact) and the     *)
(* time is before the token's expiry, issue time + TTL; the user attached  *)
(* is then the one of the id the token was issued for.                     *)
C8_TokenAcceptedUntilExpiry ==
    \A r \in Reqs :
        (Protected(req[r]) /\ req[r].verified # {}) =>
            \A ts \in req[r].verified :
                LET fresh == /\ Len(ts) = 1
                             /\ \E t \in ts[1].tok :
                                    /\ t \in issued
                                    /\ t.exp = t.iat + TTL
                                    /\ req[r].at < t.exp
                                    /\ \A u \in req[r].user : u._id = t.id
                IN /\ Passed(req[r]) <=> fresh
                   /\ ~Passed(req[r]) => (req[r].pc = "done" /\ req[r].status = 401)
                   /\ Passed(req[r]) => req[r].user # {}

(* a token accepted at an instant after its issue and before its expiry    *)
C8_Witness ==
    \E r \in Reqs :
        /\ Protected(req[r]) /\ Passed(req[r])
        /\ \E ts \in req[r].verified : \E t \in ts[1].tok :
               t.iat < req[r].at /\ req[r].at < t.exp

(* an issued token presented after its expiry and refused                  *)
C8_WitnessExpired ==
    \E r \in Reqs :
        /\ Protected(req[r]) /\ req[r].pc = "done" /\ req[r].status = 401
        /\ \E ts \in req[r].verified :
               Len(ts) = 1 /\ \E t \in ts[1].tok : t \in issued /\ req[r].at >= t.exp

(* ========================== properties of login ======================== *)
LoginFailure(s) ==
    /\ s.pc = "done" /\ s.status = 401 /\ s.error = "Invalid credentials"
    /\ s.errors = {} /\ s.token = {} /\ s.data = {}

(* C9: a login whose email matches no record and a login with the wrong    *)
(* password for an existing record are both answered 401 'Invalid          *)
(* credentials' with nothing else in the body.                             *)
C9_LoginFailuresAlike ==
    [][\A r \in Reqs :
          (req'[r] # req[r] /\ req'[r].route = "login") =>
              LET b == req'[r].body
                  found == {u \in users : u.email = NormalizeEmail(b.email)}
              IN (found = {} \/ \A u \in found : u.password # [bcrypt |-> b.password])
                     => LoginFailure(req'[r])]_vars

(* both failures side by side: unknown email and wrong password            *)
C9_Witness ==
    \E r1, r2 \in Reqs :
        /\ req[r1].route = "login" /\ req[r2].route = "login"
        /\ LoginFailure(req[r1]) /\ LoginFailure(req[r2])
        /\ \A u \in users : u.email # NormalizeEmail(req[r1].body.email)
        /\ \E u \in users : /\ u.email = NormalizeEmail(req[r2].body.email)
                            /\ u.password # [bcrypt |-> req[r2].body.password]

(* ===================== properties of profile update ==================== *)
(* C10: a PUT /api/users/profile whose body breaks a field rule is         *)
(* answered 400 with field errors, and no store operation follows the      *)
(* guard's lookup.                                                         *)
C10_InvalidPatchRejected ==
    \A r \in Reqs :
        (/\ req[r].route = "putProfile" /\ req[r].pc = "done"
         /\ GuardHolds(req[r])
         /\ profileUpdateValidator(req[r].body) # {})
        => /\ req[r].status = 400
           /\ req[r].errors # {}
           /\ req[r].ops = <<"findById">>
           /\ ~req[r].wrote

(* a step of request r on PUT /api/users/profile                           *)
PutStep(r) == req'[r] # req[r] /\ req'[r].route = "putProfile"

PutDone(s) == s.route = "putProfile" /\ s.pc = "done"

(* the stored record of the user the guard attached to the request         *)
Stored(coll, s) == UNION {FindById(coll, u._id) : u \in s.user}

(* C11: a PUT /api/users/profile that is answered with anything but 200    *)
(* (400, 401, 404, 500) leaves the whole collection as it was: no step of  *)
(* such a request, guard or handler, writes any field of the patch.        *)
C11_FailedUpdatePersistsNothing ==
    [][\A r \in Reqs :
          (PutStep(r) /\ ~(req'[r].pc = "done" /\ req'[r].status = 200))
              => (users' = users /\ ~req'[r].wrote)]_vars

(* a patch with one valid and one invalid field answered 500 while the     *)
(* record exists and differs from the valid field                          *)
C11_Witness ==
    \E r \in Reqs :
        /\ PutDone(req[r]) /\ req[r].status = 500
        /\ req[r].body.experience = {Num(5)}
        /\ req[r].body.name = {Str(LongName)}
        /\ \E u \in Stored(users, req[r]) : u.experience # 5 /\ u.name # LongName

(* C12: a PUT answered 200 whose body passes profileUpdateValidator leaves *)
(* every field the body carries in the stored record, and in the record    *)
(* returned, with the supplied value (a name as trimmed, a numeric string  *)
(* as its number); a name that is empty after trimming is left aside.      *)
C12_PresentFieldsApplied ==
    [][\A r \in Reqs :
          (/\ PutStep(r) /\ req'[r].pc = "done" /\ req'[r].status = 200
           /\ profileUpdateValidator(req'[r].body) = {})
          => /\ Stored(users', req'[r]) # {}
             /\ \A u \in Stored(users', req'[r]) :
                    LET b == req'[r].body
                    IN /\ \A v \in b.name :
                              Trim(JsString(v)) # <<>> => u.name = Trim(JsString(v))
                       /\ \A v \in b.skills : u.skills = v.a
                       /\ \A v \in b.experience : u.experience = StrToNum(JsString(v))
                       /\ \A v \in b.education : u.education = v.s
                       /\ req'[r].data = {Select(u)}]_vars


(* the attributes no profile update may touch                              *)
SameIdentity(u, v) ==
    /\ v._id = u._id /\ v.email = u.email /\ v.password = u.password
    /\ v.role = u.role /\ v.createdAt = u.createdAt

(* C13: a step of a PUT /api/users/profile keeps the number of records,    *)
(* leaves every other record alone, and in the user's record changes none  *)
(* of id, email, password hash, role, created_at, whatever keys the body   *)
(* carries; name, skills, experience, education change only when the body  *)
(* carries them.                                                           *)
C13_UpdateFrame ==
    [][\A r \in Reqs :
          PutStep(r) =>
              /\ {u._id : u \in users'} = {u._id : u \in users}
              /\ \A u \in users : \E v \in users' :
                     /\ SameIdentity(u, v)
                     /\ (u \notin Stored(users, req'[r]) => v = u)
                     /\ LET b == req'[r].body
                        IN /\ (b.name = {} => v.name = u.name)
                           /\ (b.skills = {} => v.skills = u.skills)
                           /\ (b.experience = {} => v.experience = u.experience)
                           /\ (b.education = {} => v.education = u.education)]_vars

(* a body with role, email and password keys answered 200: the skills it   *)
(* carried are stored, the role is still user                              *)
C13_Witness ==
    \E r \in Reqs :
        /\ PutDone(req[r]) /\ req[r].status = 200 /\ req[r].wrote
        /\ "role" \in DOMAIN req[r].body
        /\ req[r].body.role = {Str(Admin)}
        /\ \E u \in Stored(users, req[r]) :
               u.role = "user" /\ u.skills = <<Go>> /\ u.email = AnnMail


(* C14: a PUT answered 200 leaves created_at as it was and, when time has  *)
(* passed since the record's updated_at, sets updated_at to a later        *)
(* instant.                                                                *)
C14_UpdatedAtAdvances ==
    [][\A r \in Reqs :
          (PutStep(r) /\ req'[r].pc = "done" /\ req'[r].status = 200)
          => \A u \in Stored(users, req'[r]) : \A v \in Stored(users', req'[r]) :
                 /\ v.createdAt = u.createdAt
                 /\ (u.updatedAt < now => v.updatedAt > u.updatedAt)]_vars


(* ==================== invariants of the stored records ================= *)
(* C15: every stored record has experience >= 0.                           *)
C15_ExperienceNonNegative == \A u \in users : u.experience >= 0


(* C16: every stored record has a name of 1 to 50 characters, whatever     *)
(* names registrations and profile updates were sent (empty, blank,        *)
(* over-long).                                                             *)
C16_NameInRange == \A u \in users : u.name # <<>> /\ Len(u.name) <= NameMax

(* an update with a 51-character name answered 500, the record keeping    *)
(* its name                                                                *)
C16_Witness ==
    \E r \in Reqs :
        /\ PutDone(req[r]) /\ req[r].body.name = {Str(LongName)}
        /\ req[r].status = 500
        /\ \E u \in Stored(users, req[r]) : u.name = Ann


(* ====================== properties of the responses ==================== *)
(* C17: no answer of any endpoint carries a password or a password hash:   *)
(* neither the record it returns nor the token payload has a password      *)
(* attribute.                                                              *)
C17_NoPasswordInResponse ==
    \A r \in Reqs :
        req[r].pc = "done" =>
            /\ \A d \in req[r].data : "password" \notin DOMAIN d
            /\ \A t \in req[r].token : "password" \notin DOMAIN t

(* a record returned with 200 while the stored record holds a hash         *)
C17_Witness ==
    \E r \in Reqs :
        /\ req[r].pc = "done" /\ req[r].status = 200
        /\ \E d \in req[r].data : \E u \in users :
               u._id = d._id /\ u.password = Hash(Secret) /\ d.email = u.email


(* ================= properties of registration, continued =============== *)
(* a string that is not an email address                                   *)
Malformed(e) == ~e.at \/ e.local = <<>> \/ Len(e.tld) < TldMin

BreaksRegisterRule(b) ==
    \/ b.name = <<>>
    \/ Len(Trim(b.name)) > NameMax
    \/ Malformed(b.email)
    \/ Len(b.password) < PasswordMin

C19_VanishedRecordNotFound ==
    [][\A r \in Reqs :
          (/\ req[r].pc = "handler"
           /\ req[r].route \in {"getProfile", "putProfile"}
           /\ req[r].user # {}
           /\ Stored(users, req[r]) = {}
           /\ req'[r].ops # req[r].ops)
          => /\ req'[r].pc = "done" /\ req'[r].status = 404
             /\ req'[r].error = "User not found"
             /\ req'[r].data = {} /\ ~req'[r].wrote
             /\ users' = users]_vars

(* a PUT that passed the guard and found its record removed                *)
C19_Witness ==
    \E r \in Reqs :
        /\ PutDone(req[r]) /\ req[r].status = 404
        /\ req[r].user # {}
        /\ req[r].ops = <<"findById", "findByIdAndUpdate">>
        /\ \A u \in req[r].user : \A v \in users : v._id # u._id


(* ===================== properties of the collection ==================== *)
Ids(coll) == {u._id : u \in coll}

(* the step in which request r enters the guard                            *)
GuardStep(r) == Free(r) /\ req'[r] # req[r] /\ Protected(req'[r])

(* C20: no step of a login, of the guard, of GET /api/auth/me or of GET    *)
(* /api/users/profile changes the collection; no record ever leaves it,    *)
(* and a record is added only by the step of a registration answered 201.  *)
C20_ReadsWriteNothing ==
    [][/\ \A r \in Reqs :
              (\/ GuardStep(r)
               \/ (req'[r] # req[r] /\ req'[r].route \in {"login", "me", "getProfile"}))
              => users' = users
       /\ Ids(users) \subseteq Ids(users')
       /\ (Ids(users') # Ids(users) =>
               \E r \in Reqs :
                   /\ req[r].pc = "insert" /\ req'[r].route = "register"
                   /\ req'[r].pc = "done" /\ req'[r].status = 201
                   /\ Cardinality(users') = Cardinality(users) + 1)]_vars

(* two records stored, and a login, a GET /me or a GET profile answered    *)
(* 200 on them                                                             *)
C20_Witness ==
    /\ Cardinality(users) = 2
    /\ \E r \in Reqs :
           /\ req[r].route \in {"login", "me", "getProfile"}
           /\ req[r].pc = "done" /\ req[r].status = 200


TokenIds(s) == {t.id : t \in UNION {IF Len(ts) = 1 THEN ts[1].tok ELSE {} : ts \in s.verified}}

(* C22: a step of a GET or PUT /api/users/profile leaves every record      *)
(* whose id is not the one in the presented token exactly as it was, adds  *)
(* no such record, and returns no such record.                             *)
C22_Isolation ==
    [][\A r \in Reqs :
          (req'[r] # req[r] /\ req'[r].route \in {"getProfile", "putProfile"})
          => /\ \A u \in users : u._id \notin TokenIds(req'[r]) => u \in users'
             /\ \A v \in users' : v._id \notin TokenIds(req'[r]) => v \in users
             /\ \A d \in req'[r].data : d._id \in TokenIds(req'[r])]_vars

(* two users stored, one has updated her experience with her token, the    *)
(* other's record is as registered                                         *)
C22_Witness ==
    /\ Cardinality(users) = 2
    /\ \E r \in Reqs :
           /\ PutDone(req[r]) /\ req[r].status = 200 /\ req[r].wrote
           /\ req[r].body.experience = {Num(5)}
           /\ \E u \in users : u._id \in TokenIds(req[r]) /\ u.experience = 5
           /\ \E u \in users : u._id \notin TokenIds(req[r]) /\ u.experience = 0


(* C23: when the latest PUT of each of two request slots, for the same     *)
(* user and with patches on different fields, have both answered 200, the  *)
(* record holds every value either patch carried, whichever handler ran    *)
(* first, and the name neither carried is the one the guards saw.          *)
C23_DisjointPatchesBothApply ==
    (/\ PutDone(req[1]) /\ req[1].status = 200
     /\ PutDone(req[2]) /\ req[2].status = 200
     /\ TokenIds(req[1]) = TokenIds(req[2]))
    => \A u \in users :
           u._id \in TokenIds(req[1]) =>
               /\ \A r \in {1, 2} :
                      /\ \A v \in req[r].body.skills : u.skills = v.a
                      /\ \A v \in req[r].body.experience : u.experience = v.n
                      /\ \A v \in req[r].body.education : u.education = v.s
                      /\ \A d \in req[r].user : u.name = d.name

(* both guards resolved the user before either handler wrote, and both     *)
(* patches are in the record                                               *)
C23_Witness ==
    /\ PutDone(req[1]) /\ req[1].status = 200
    /\ PutDone(req[2]) /\ req[2].status = 200
    /\ TokenIds(req[1]) = TokenIds(req[2])
    /\ \A d \in req[1].user : d.experience = 0 /\ d.education = <<>>
    /\ \A d \in req[2].user : d.experience = 0 /\ d.education = <<>>
    /\ \E u \in users :
           /\ u._id \in TokenIds(req[1])
           /\ u.experience = 5 /\ u.education = BSc /\ u.skills = <<Go>>


(* ======================== properties of the client ===================== *)
(* the step in which a GET /api/auth/me sent with token t is answered      *)
LoadAnswered(t) == loads'[t] = loads[t] - 1

Unauthenticated(st) == st.token = Null /\ st.user = Null /\ ~st.isAuthenticated

(* C24: when GET /api/auth/me is answered with a refusal or with a body    *)
(* without user data, the client is left with token null, user null,       *)
(* isAuthenticated false and no token in localStorage; and the render of   *)
(* /profile in a state that is neither loading nor authenticated           *)
(* navigates to /login.                                                    *)
C24_RejectedTokenSignsOut ==
    [][/\ \A t \in {Orphan, Expired} :
              LoadAnswered(t) => (Unauthenticated(state') /\ localStorage' = Null)
       /\ (dirty /\ location = "/profile" /\ ~state.loading /\ ~state.isAuthenticated)
              => location' = "/login"]_vars

(* a load was refused, the one gesture made was the visit of /profile, and *)
(* the render of /profile has just navigated to /login                     *)
C24_Witness ==
    /\ location = "/login" /\ mounted /\ dirty /\ clicks = 1
    /\ state.error = "Authentication error"
    /\ Unauthenticated(state) /\ localStorage = Null


(* C25: after any sequence of reducer actions the token of the auth state  *)
(* is the token stored in localStorage, both absent or both the same value *)
C25_TokenMirrorsStorage == state.token = localStorage

(* a success action has stored a token after the user had been cleared     *)
C25_Witness ==
    /\ state.token # Null /\ localStorage = state.token
    /\ state.isAuthenticated /\ state.user = Null /\ ~state.loading


(* C26: in every reachable state isAuthenticated = true implies a non-null *)
(* token (so a load answered after LOGOUT must leave the state             *)
(* unauthenticated)                                                        *)
C26_AuthenticatedHasToken == state.isAuthenticated => state.token # Null


(* C27: a render of /profile never navigates to /login while a valid token *)
(* is stored in localStorage (user navigation happens between renders,     *)
(* when dirty is false, so a move made while dirty is the route's own)     *)
C27_ValidTokenNeverRedirected ==
    [][(dirty /\ location = "/profile" /\ location' = "/login")
           => localStorage # Valid]_vars


(* C28: at most one GET /api/auth/me is in flight at any time              *)
C28_OneLoadInFlight == InFlight <= 1


(* no automatic load can start: the effects of the provider, PrivateRoute  *)
(* and Profile all need a stored token and no loaded user                  *)
Settled ==
    /\ ~state.loading
    /\ InFlight = 0
    /\ (state.user # Null \/ localStorage = Null)

(* C29: when every request is answered, the client comes to stay in states *)
(* with loading = false, no load in flight and none to be started: the     *)
(* user is loaded or the token has been removed                            *)
C29_LoadingTerminates == <>[]Settled

(* a refused load has been answered and nothing is left to do              *)
C29_Witness ==
    /\ Settled /\ ~dirty
    /\ state.error = "Authentication error"
    /\ state.user = Null /\ localStorage = Null
    /\ posts["LOGIN"] = 0 /\ posts["REGISTER"] = 0 /\ saves = 0

====
